---- MODULE Spec2Model ----
(***************************************************************************)
(* Rule 2768887: VBRK/VBRP draft filter check (src/app/app.py).            *)
(*                                                                         *)
(* The source text of a unit is modelled as the sequence of its lexemes:   *)
(* every whitespace character is a lexeme of its own (" " or "\n"), every  *)
(* maximal run of word characters is a lexeme, and every other lexeme      *)
(* starts with a non-word character.  Offsets are lexeme offsets, 0-based  *)
(* and half-open as the Python slices of the source are; since "\n" is a   *)
(* lexeme of its own, line numbers are the same as in the character text.  *)
(* The regular expressions of the source are modelled with their           *)
(* backtracking order (greedy = longest first, lazy = shortest first).     *)
(***************************************************************************)
EXTENDS Integers, Sequences, FiniteSets, TLC

\* Optional[T]: None is the empty sequence, a value v is <<v>>
None == << >>
Some(v) == <<v>>
Val(o) == o[1]

NoMatch == [end |-> -1]

Min(S) == CHOOSE x \in S : \A y \in S : x <= y
Max(S) == CHOOSE x \in S : \A y \in S : x >= y

(***************************************************************************)
(* Lexemes.                                                                *)
(***************************************************************************)
UpperMap ==
    [t \in {"select", "single", "from", "into", "where", "vbrk", "vbrp", "likp",
            "a", "b", "v", "x", "draft", "space", "abap_false"} |->
        CASE t = "select" -> "SELECT"
          [] t = "single" -> "SINGLE"
          [] t = "from" -> "FROM"
          [] t = "into" -> "INTO"
          [] t = "where" -> "WHERE"
          [] t = "vbrk" -> "VBRK"
          [] t = "vbrp" -> "VBRP"
          [] t = "likp" -> "LIKP"
          [] t = "a" -> "A"
          [] t = "b" -> "B"
          [] t = "v" -> "V"
          [] t = "x" -> "X"
          [] t = "draft" -> "DRAFT"
          [] t = "space" -> "SPACE"
          [] t = "abap_false" -> "ABAP_FALSE"]

\* str.upper() / re.IGNORECASE on one lexeme
Upper(t) == IF t \in DOMAIN UpperMap THEN UpperMap[t] ELSE t

UpperWords ==
    {"SELECT", "SINGLE", "FROM", "INTO", "TABLE", "WHERE", "AND", "AS", "JOIN",
     "INNER", "ON", "VBRK", "VBRP", "LIKP", "A", "B", "V", "X", "DRAFT", "SPACE",
     "ABAP_FALSE", "FOR", "ALL", "ENTRIES", "ORDER", "GROUP", "HAVING"}

\* \w+ : the lexeme is a run of word characters
IsWord(t) == Upper(t) \in UpperWords

\* \s : the lexeme is one whitespace character
IsWs(t) == t \in {" ", "\n"}

\* [\w@()\->] : the first character of the lexeme may start an INTO target
TargetStart(t) == IsWord(t) \/ t = "@lt"

\* 0-based access: the lexeme at offset i of txt
Tok(txt, i) == txt[i + 1]

\* txt[lo:hi]
Slice(txt, lo, hi) == SubSeq(txt, lo + 1, hi)

Is(txt, i, w) == i >= 0 /\ i < Len(txt) /\ Upper(Tok(txt, i)) = w

\* \s* from offset i: the offset after the longest run of whitespace
RECURSIVE SkipWs(_, _)
SkipWs(txt, i) ==
    IF i < Len(txt) /\ IsWs(Tok(txt, i)) THEN SkipWs(txt, i + 1) ELSE i

(***************************************************************************)
(* SELECT_RE.  A match is [start, end, fb, fe]: the span is [start, end),  *)
(* the group from_clause is [fb, fe) and the group full is                 *)
(* [start, end - 1) (the span without the closing ".").                    *)
(***************************************************************************)

\* the first alternative of a regex that matched: m, or else alt
OrElse(m, alt) == IF m # NoMatch THEN m ELSE alt

\* the same for an offset, where -1 stands for no match
OrElseAt(e, alt) == IF e # -1 THEN e ELSE alt

\* (?P<into_wa>[\w@()\->]+) at r: the target starts at r, or -1
WaTarget(txt, r) == IF TargetStart(Tok(txt, r)) THEN r ELSE -1

\* \s+(?P<into_tab>[\w@()\->]+) after TABLE at r, r2 the offset after the
\* whitespace: the target starts at r2, or -1
TabTarget(txt, r, r2) ==
    IF r2 > r + 1 /\ r2 < Len(txt) /\ TargetStart(Tok(txt, r2)) THEN r2 ELSE -1

\* TABLE\s+(?P<into_tab>...) | (?P<into_wa>...) at r, after INTO\s+ : the
\* alternative with TABLE is tried first
IntoAlternatives(txt, q, r) ==
    IF ~(r > q + 1 /\ r < Len(txt)) THEN -1
    ELSE OrElseAt(IF Is(txt, r, "TABLE") THEN TabTarget(txt, r, SkipWs(txt, r + 1)) ELSE -1,
                  WaTarget(txt, r))

\* (?:INTO\s+TABLE\s+(?P<into_tab>[\w@()\->]+)) | (?:INTO\s+(?P<into_wa>[\w@()\->]+))
\* tried at offset q: the offset where the target starts, or -1
IntoTarget(txt, q) ==
    IF Is(txt, q, "INTO") THEN IntoAlternatives(txt, q, SkipWs(txt, q + 1)) ELSE -1

\* ... (?P<tail>.*?) \.  after a target starting at e - 1: the lazy tail ends
\* at the first "." after the first target character (the target class holds
\* no "."); the offset after that ".", or -1
RECURSIVE TailEnd(_, _)
TailEnd(txt, e) ==
    IF e >= Len(txt) \/ e <= 0 THEN -1
    ELSE IF Tok(txt, e) = "." THEN e + 1
    ELSE TailEnd(txt, e + 1)

\* (?:INTO ...) (?P<tail>.*?) \.  with INTO at q: the end of the match, or -1
IntoEnd(txt, q) == TailEnd(txt, IntoTarget(txt, q) + 1)

\* (?P<middle>.*?) (?:INTO ...) (?P<tail>.*?) \.  from offset p: lazy middle,
\* so the first INTO that can complete the match is taken
RECURSIVE RestEnd(_, _)
RestEnd(txt, p) ==
    IF p >= Len(txt) THEN -1
    ELSE OrElseAt(IntoEnd(txt, p), RestEnd(txt, p + 1))

\* (WHERE|INTO|ORDER|GROUP|HAVING|FOR\s+ALL\s+ENTRIES|$) at offset r.
\* No lexeme of the texts considered has one of the keywords as a proper
\* prefix, so a keyword matches a whole lexeme.
ForAllEntries(txt, r, r2) ==
    /\ Is(txt, r, "FOR") /\ r2 > r + 1 /\ Is(txt, r2, "ALL")
    /\ SkipWs(txt, r2 + 1) > r2 + 1 /\ Is(txt, SkipWs(txt, r2 + 1), "ENTRIES")

ClauseKeyword(txt, r) ==
    \/ r = Len(txt)
    \/ /\ r < Len(txt)
       /\ Upper(Tok(txt, r)) \in {"WHERE", "INTO", "ORDER", "GROUP", "HAVING"}
    \/ ForAllEntries(txt, r, SkipWs(txt, r + 1))

\* (?= \s+ (WHERE|INTO|ORDER|GROUP|HAVING|FOR\s+ALL\s+ENTRIES|$) ) at offset p
Lookahead(txt, p) ==
    /\ p < Len(txt) /\ IsWs(Tok(txt, p))
    /\ ClauseKeyword(txt, SkipWs(txt, p))

\* the match with the from_clause txt[b:p] and the end e
ClauseMatch(b, p, e) == IF e = -1 THEN NoMatch ELSE [end |-> e, fb |-> b, fe |-> p]

\* (?P<from_clause>.*?) starting at b, tried with its end at p, p + 1, ...:
\* lazy, the shortest clause after which the lookahead holds and the rest of
\* the pattern matches
RECURSIVE FromClause(_, _, _)
FromClause(txt, b, p) ==
    IF p >= Len(txt) THEN NoMatch
    ELSE OrElse(IF Lookahead(txt, p) THEN ClauseMatch(b, p, RestEnd(txt, p)) ELSE NoMatch,
                FromClause(txt, b, p + 1))

\* FROM\s+ (?P<from_clause>.*?) ... with FROM at offset g and the clause tried
\* from b, b - 1, ...: the greedy \s+ gives whitespace back to the clause only
\* when the longer run fails
RECURSIVE FromPart(_, _, _)
FromPart(txt, g, b) ==
    IF b < g + 2 THEN NoMatch
    ELSE OrElse(FromClause(txt, b, b), FromPart(txt, g, b - 1))

\* \s+FROM\s+ ... after a fields group that ends at f, g the offset after the
\* whitespace
FromAt(txt, f, g) ==
    IF g > f /\ Is(txt, g, "FROM") THEN FromPart(txt, g, SkipWs(txt, g + 1)) ELSE NoMatch

\* (?P<fields>.+?) \s+FROM\s+ ...  with the fields group txt[a:f] tried for
\* f, f + 1, ...: lazy, the shortest fields group that lets the pattern match
RECURSIVE FieldsPart(_, _)
FieldsPart(txt, f) ==
    IF f > Len(txt) THEN NoMatch
    ELSE OrElse(FromAt(txt, f, SkipWs(txt, f)), FieldsPart(txt, f + 1))

\* SINGLE\s+ (?P<fields>.+?) ...  with SINGLE at a and the fields tried from
\* a2, a2 - 1, ... (greedy \s+)
RECURSIVE AfterSingle(_, _, _)
AfterSingle(txt, a, a2) ==
    IF a2 < a + 2 THEN NoMatch
    ELSE OrElse(FieldsPart(txt, a2 + 1), AfterSingle(txt, a, a2 - 1))

\* (?:SINGLE\s+)? (?P<fields>.+?) ... at offset a: the greedy option is tried
\* with SINGLE first, without it when that fails
SinglePart(txt, a) ==
    OrElse(IF Is(txt, a, "SINGLE") THEN AfterSingle(txt, a, SkipWs(txt, a + 1)) ELSE NoMatch,
           FieldsPart(txt, a + 1))

\* SELECT\s+ ...  with SELECT at s and the rest tried from a, a - 1, ...
RECURSIVE AfterSelect(_, _, _)
AfterSelect(txt, s, a) ==
    IF a < s + 2 THEN NoMatch
    ELSE OrElse(SinglePart(txt, a), AfterSelect(txt, s, a - 1))

\* the match m with its start s
WithStart(s, m) == IF m = NoMatch THEN NoMatch ELSE [start |-> s] @@ m

\* SELECT_RE.match at offset s (the first match in backtracking order)
MatchAt(txt, s) ==
    IF Is(txt, s, "SELECT") THEN WithStart(s, AfterSelect(txt, s, SkipWs(txt, s + 1)))
    ELSE NoMatch

\* SELECT_RE.finditer(txt), scanning from offset pos; m is the outcome of
\* the match tried at pos
RECURSIVE FindIter(_, _)
RECURSIVE FindNext(_, _, _)
FindNext(txt, pos, m) ==
    IF m # NoMatch THEN <<m>> \o FindIter(txt, m.end) ELSE FindIter(txt, pos + 1)

FindIter(txt, pos) ==
    IF pos >= Len(txt) THEN << >> ELSE FindNext(txt, pos, MatchAt(txt, pos))

(***************************************************************************)
(* extract_tables                                                          *)
(***************************************************************************)

\* re.split / str.split on one separator lexeme: the pieces between the
\* lexemes that satisfy the separator test, empty pieces included
RECURSIVE SplitAt(_, _, _)
SplitAt(seq, sep, cur) ==
    IF seq = << >> THEN <<cur>>
    ELSE IF Upper(Head(seq)) = sep THEN <<cur>> \o SplitAt(Tail(seq), sep, << >>)
    ELSE SplitAt(Tail(seq), sep, Append(cur, Head(seq)))

\* str.strip()
RECURSIVE Strip(_)
Strip(seq) ==
    IF seq = << >> THEN seq
    ELSE IF IsWs(Head(seq)) THEN Strip(Tail(seq))
    ELSE IF IsWs(seq[Len(seq)]) THEN Strip(SubSeq(seq, 1, Len(seq) - 1))
    ELSE seq

\* (\w+) at offset k of the candidate: the word there, or None
WordAt(cand, k) == IF k < Len(cand) /\ IsWord(Tok(cand, k)) THEN Some(Tok(cand, k)) ELSE None

\* (?:AS\s+)?(\w+) at offset r: the greedy option is tried with AS first,
\* without it when no alias follows the AS
AliasAt(cand, r, r2) ==
    IF Is(cand, r, "AS") /\ r2 > r + 1 /\ WordAt(cand, r2) # None THEN WordAt(cand, r2)
    ELSE WordAt(cand, r)

\* (?:\s+(?:AS\s+)?(\w+))? after the table at offset 0, r the offset after
\* the whitespace: group 2, or None
Group2(cand, r) == IF r > 1 THEN AliasAt(cand, r, SkipWs(cand, r + 1)) ELSE None

\* alias = (m.group(2) or m.group(1) or "").upper()
AliasOf(g1, g2) == IF g2 # None THEN Upper(Val(g2)) ELSE Upper(g1)

\* tbl_alias_re.match(cand): (\w+)(?:\s+(?:AS\s+)?(\w+))? anchored at the start
\* of the candidate; << >> when there is no match, else <<[table, alias]>>
TblAlias(cand) ==
    IF ~IsWord(Tok(cand, 0)) THEN << >>
    ELSE <<[table |-> Upper(Tok(cand, 0)),
            alias |-> AliasOf(Tok(cand, 0), Group2(cand, SkipWs(cand, 1)))]>>

\* one candidate of the comma list, stripped
CandTable(cand) == IF cand = << >> THEN << >> ELSE TblAlias(cand)

\* the loop over the comma-separated candidates of one join part
RECURSIVE CandidateTables(_)
CandidateTables(cands) ==
    IF cands = << >> THEN << >>
    ELSE CandTable(Strip(Head(cands))) \o CandidateTables(Tail(cands))

\* the loop over the join parts
RECURSIVE JoinPartTables(_)
JoinPartTables(parts) ==
    IF parts = << >> THEN << >>
    ELSE CandidateTables(SplitAt(SplitAt(Head(parts), "ON", << >>)[1], ",", << >>))
         \o JoinPartTables(Tail(parts))

extract_tables(from_clause) == JoinPartTables(SplitAt(from_clause, "JOIN", << >>))

IsVbrkVbrp(t) == t.table \in {"VBRK", "VBRP"}

\* [t for t in tables if t["table"] in ("VBRK", "VBRP")]
v_tables(tables) == SelectSeq(tables, IsVbrkVbrp)

(***************************************************************************)
(* find_selects                                                            *)
(***************************************************************************)
\* the entry of out for the match m, none if no table is VBRK or VBRP
SelectOf(txt, m, tables) ==
    IF v_tables(tables) = << >> THEN << >>
    ELSE <<[text |-> Slice(txt, m.start, m.end - 1),
            tables |-> tables,
            span |-> <<m.start, m.end>>]>>

RECURSIVE SelectsOf(_, _)
SelectsOf(txt, ms) ==
    IF ms = << >> THEN << >>
    ELSE SelectOf(txt, Head(ms), extract_tables(Slice(txt, Head(ms).fb, Head(ms).fe)))
         \o SelectsOf(txt, Tail(ms))

find_selects(txt) == SelectsOf(txt, FindIter(txt, 0))

(***************************************************************************)
(* Draft filter helpers                                                    *)
(***************************************************************************)

\* (SPACE|' '|\"\"|''|abap_false|ABAP_FALSE) under re.IGNORECASE
IsFalseLiteral(t) == Upper(t) \in {"SPACE", "' '", "\"\"", "''", "ABAP_FALSE"}

\* the escaped alias matches where a lexeme ends with it; no word of the
\* texts considered is a proper suffix of another, so that is the whole word
EndsWithAlias(t, alias) == IsWord(t) /\ Upper(t) = alias

\* re.search of  alias\s*~\s*draft\s*=\s*(literal)  in sel_stmt
_has_draft_check(sel_stmt, alias) ==
    \E i \in 0..(Len(sel_stmt) - 1) :
        LET j1 == SkipWs(sel_stmt, i + 1)
            j2 == SkipWs(sel_stmt, j1 + 1)
            j3 == SkipWs(sel_stmt, j2 + 1)
            j4 == SkipWs(sel_stmt, j3 + 1)
        IN  /\ EndsWithAlias(Tok(sel_stmt, i), alias)
            /\ Is(sel_stmt, j1, "~")
            /\ Is(sel_stmt, j2, "DRAFT")
            /\ Is(sel_stmt, j3, "=")
            /\ j4 < Len(sel_stmt) /\ IsFalseLiteral(Tok(sel_stmt, j4))

draft_filter_missing(sel_stmt, tables) ==
    IF v_tables(tables) = << >> THEN FALSE
    ELSE IF \A k \in 1..Len(v_tables(tables)) :
                _has_draft_check(sel_stmt, v_tables(tables)[k].alias) THEN FALSE
    ELSE TRUE

(***************************************************************************)
(* Helpers of the finding builder                                          *)
(***************************************************************************)

\* text.rfind("\n", 0, hi): the last offset below hi that holds a newline
rfind_nl(text, hi) ==
    LET S == {k \in 0..(hi - 1) : k < Len(text) /\ Tok(text, k) = "\n"}
    IN  IF S = {} THEN -1 ELSE Max(S)

\* text.find("\n", lo): the first offset from lo on that holds a newline
find_nl(text, lo) ==
    LET S == {k \in lo..(Len(text) - 1) : Tok(text, k) = "\n"}
    IN  IF S = {} THEN -1 ELSE Min(S)

\* text.count("\n")
RECURSIVE count_nl(_)
count_nl(text) ==
    IF text = << >> THEN 0
    ELSE (IF Head(text) = "\n" THEN 1 ELSE 0) + count_nl(Tail(text))

\* the line start is left on the newline found by rfind
get_line_snippet_mut(text, start, end) ==
    LET line_start == IF rfind_nl(text, start) = -1 THEN 0
                      ELSE rfind_nl(text, start)
        line_end == IF find_nl(text, end) = -1 THEN Len(text)
                    ELSE find_nl(text, end)
    IN  Slice(text, line_start, line_end)

get_line_snippet(text, start, end) ==
    LET line_start == IF rfind_nl(text, start) = -1 THEN 0
                      ELSE rfind_nl(text, start) + 1
        line_end == IF find_nl(text, end) = -1 THEN Len(text)
                    ELSE find_nl(text, end)
    IN  Slice(text, line_start, line_end)

\* snippet_line.replace("\n", "\\n"): a newline becomes backslash, n
RECURSIVE escape_nl(_)
escape_nl(text) ==
    IF text = << >> THEN << >>
    ELSE (IF Head(text) = "\n" THEN <<"\\", "n">> ELSE <<Head(text)>>)
         \o escape_nl(Tail(text))

\* ", ".join(f"{t['table']} ({t['alias']})" for the VBRK/VBRP tables)
RECURSIVE table_list(_)
table_list(vt) ==
    IF vt = << >> THEN << >>
    ELSE <<vt[1].table, " ", "(", vt[1].alias, ")">>
         \o (IF Len(vt) > 1 THEN <<",", " ">> ELSE << >>)
         \o table_list(Tail(vt))

Message == "SELECT on VBRK/VBRP without draft filter per SAP Note 2768887."

\* the line within the block counted from 0
line_in_block_mut(text, stmt_start) == count_nl(Slice(text, 0, stmt_start))

\* line_in_block = src[:stmt_start].count("\n") + 1
line_in_block(text, stmt_start) == count_nl(Slice(text, 0, stmt_start)) + 1

\* Finding(...) for one violating select of the loop of scan_unit
MakeFinding(u, text, base, sel) ==
    LET snippet_line == get_line_snippet(text, sel.span[1], sel.span[2])
        snippet_line_count == count_nl(snippet_line) + 1
    IN  [prog_name |-> u.pgm_name,
         incl_name |-> u.inc_name,
         types |-> u.type,
         blockname |-> u.name,
         starting_line |-> base + line_in_block(text, sel.span[1]),
         ending_line |-> base + line_in_block(text, sel.span[1]) + snippet_line_count,
         issues_type |-> "MissingDraftFilter",
         severity |-> "error",
         message |-> Message,
         suggestion |-> <<"For this SELECT on ">> \o table_list(v_tables(sel.tables))
                        \o <<", add draft filter condition(s) alias~draft = space for all VBRK/VBRP aliases involved.">>,
         snippet |-> escape_nl(snippet_line)]

\* a copy that leaves class_implementation at its default
CopyUnitMut(u) ==
    [pgm_name |-> u.pgm_name, inc_name |-> u.inc_name, type |-> u.type,
     name |-> u.name, class_implementation |-> None,
     start_line |-> u.start_line, end_line |-> u.end_line, code |-> u.code,
     findings |-> u.findings]

\* Unit(**unit.model_dump()): a new unit with the fields of the given one
CopyUnit(u) ==
    [pgm_name |-> u.pgm_name, inc_name |-> u.inc_name, type |-> u.type,
     name |-> u.name, class_implementation |-> u.class_implementation,
     start_line |-> u.start_line, end_line |-> u.end_line, code |-> u.code,
     findings |-> u.findings]

\* the list is returned as it is, also when empty
FindingsOrNoneMut(fs) == Some(fs)

\* findings if findings else None
FindingsOrNone(fs) == IF fs = << >> THEN None ELSE Some(fs)

(***************************************************************************)
(* Input units                                                             *)
(***************************************************************************)
MaxStmts == 2
MaxLead == 4

OnAB == <<"ON", " ", "a", "~", "x", " ", "=", " ", "b", "~", "x">>
OnVbrk == <<"ON", " ", "vbrk", "~", "x", " ", "=", " ", "vbrp", "~", "x">>
IntoTab == <<" ", "INTO", " ", "TABLE", " ", "@lt">>
IntoWa == <<" ", "INTO", " ", "x">>
SelectStar == <<"SELECT", " ", "*", " ", "FROM", " ">>

\* SELECT * FROM vbrk INTO x.
StmtDefault == SelectStar \o <<"vbrk">> \o IntoWa \o <<".">>
\* SELECT * FROM vbrk AS a JOIN vbrp AS b ON a~x = b~x INTO TABLE @lt WHERE a~draft = space.
StmtPartial ==
    SelectStar \o <<"vbrk", " ", "AS", " ", "a", " ", "JOIN", " ", "vbrp", " ", "AS", " ", "b", " ">>
    \o OnAB \o IntoTab
    \o <<" ", "WHERE", " ", "a", "~", "draft", " ", "=", " ", "space", ".">>
\* ... WHERE a~draft = space AND b~draft = ' '.
StmtFull ==
    SubSeq(StmtPartial, 1, Len(StmtPartial) - 1)
    \o <<" ", "AND", " ", "b", "~", "draft", " ", "=", " ", "' '", ".">>
\* SELECT * FROM vbrk INNER JOIN vbrp ON vbrk~x = vbrp~x INTO TABLE @lt
\*   WHERE vbrk~draft = space AND vbrp~draft = abap_false.
StmtInner ==
    SelectStar \o <<"vbrk", " ", "INNER", " ", "JOIN", " ", "vbrp", " ">> \o OnVbrk \o IntoTab
    \o <<" ", "WHERE", " ", "vbrk", "~", "draft", " ", "=", " ", "space", " ", "AND", " ",
         "vbrp", "~", "draft", " ", "=", " ", "abap_false", ".">>
\* select single x / from VBRK / into x where VBRK ~ DRAFT = ABAP_FALSE.   (three lines)
StmtLower ==
    <<"select", " ", "single", " ", "x", "\n", "from", " ", "VBRK", "\n", "into", " ", "x", " ",
      "where", " ", "VBRK", " ", "~", " ", "DRAFT", " ", "=", " ", "ABAP_FALSE", ".">>
\* SELECT * / FROM vbrp v INTO x.   (two lines)
StmtBare ==
    <<"SELECT", " ", "*", "\n", "FROM", " ", "vbrp", " ", "v">> \o IntoWa \o <<".">>
\* SELECT * FROM likp INTO x.
StmtOther == SelectStar \o <<"likp">> \o IntoWa \o <<".">>
\* SELECT * FROM vbrk.
StmtNoIntoV == SelectStar \o <<"vbrk", ".">>
\* SELECT * FROM likp.
StmtNoIntoO == SelectStar \o <<"likp", ".">>
\* x, vbrk INTO x.   (not a SELECT)
StmtText == <<"x", ",", " ", "vbrk">> \o IntoWa \o <<".">>

Statements ==
    {StmtDefault, StmtPartial, StmtFull, StmtInner, StmtLower, StmtBare,
     StmtOther, StmtNoIntoV, StmtNoIntoO, StmtText}

RECURSIVE JoinStmts(_, _)
JoinStmts(stmts, sep) ==
    IF stmts = << >> THEN << >>
    ELSE IF Len(stmts) = 1 THEN stmts[1]
    ELSE stmts[1] \o <<sep>> \o JoinStmts(Tail(stmts), sep)

Codes ==
    {[k \in 1..n |-> "\n"] \o JoinStmts(stmts, sep) :
        n \in 0..MaxLead,
        stmts \in UNION {[1..k -> Statements] : k \in 0..MaxStmts},
        sep \in {" ", "\n"}}

OldFinding ==
    [prog_name |-> "ZOLD", incl_name |-> "ZOLD", types |-> "FORM", blockname |-> "OLD",
     starting_line |-> 1, ending_line |-> 2, issues_type |-> "MissingDraftFilter",
     severity |-> "error", message |-> Message, suggestion |-> << >>, snippet |-> << >>]

Units ==
    [pgm_name : {"ZPROG"}, inc_name : {"ZINCL"}, type : {"METHOD"}, name : {"BLOCK"},
     class_implementation : {Some("ZCL_BILLING")}, start_line : {None, Some(100)},
     end_line : {Some(0)},
     code : {Some(c) : c \in Codes} \cup {None},
     findings : {None, Some(<<OldFinding>>)}]

(***************************************************************************)
(* scan_unit as a state machine                                            *)
(***************************************************************************)
\* reported: the spans (stmt_start, stmt_end) of the selects a finding was
\* built for, in the order of the findings
VARIABLES unit, pc, src, selects, findings, base_start, idx, out_unit, reported

vars == <<unit, pc, src, selects, findings, base_start, idx, out_unit, reported>>

Init ==
    /\ unit \in Units
    /\ pc = "start"
    /\ src = << >>
    /\ selects = << >>
    /\ findings = << >>
    /\ base_start = 0
    /\ idx = 1
    /\ out_unit = None
    /\ reported = << >>

\* src = unit.code or ""; selects = find_selects(src); findings = [];
\* base_start = unit.start_line or 0
ScanStart ==
    /\ pc = "start"
    /\ src' = IF unit.code = None THEN << >> ELSE Val(unit.code)
    /\ selects' = find_selects(src')
    /\ findings' = << >>
    /\ base_start' = IF unit.start_line = None THEN 0 ELSE Val(unit.start_line)
    /\ idx' = 1
    /\ pc' = "loop"
    /\ UNCHANGED <<unit, out_unit, reported>>

\* loop body: if not draft_filter_missing(sel_text, tables): continue
LoopSkip ==
    /\ pc = "loop"
    /\ idx <= Len(selects)
    /\ ~draft_filter_missing(selects[idx].text, selects[idx].tables)
    /\ idx' = idx + 1
    /\ UNCHANGED <<unit, pc, src, selects, findings, base_start, out_unit, reported>>

\* loop body: build the finding and append it
LoopReport ==
    /\ pc = "loop"
    /\ idx <= Len(selects)
    /\ draft_filter_missing(selects[idx].text, selects[idx].tables)
    /\ findings' = Append(findings, MakeFinding(unit, src, base_start, selects[idx]))
    /\ reported' = Append(reported, selects[idx].span)
    /\ idx' = idx + 1
    /\ UNCHANGED <<unit, pc, src, selects, base_start, out_unit>>

\* out_unit = Unit(**unit.model_dump()); out_unit.findings = ...; return
ScanReturn ==
    /\ pc = "loop"
    /\ idx > Len(selects)
    /\ out_unit' = Some([CopyUnit(unit) EXCEPT !.findings = FindingsOrNone(findings)])
    /\ pc' = "done"
    /\ UNCHANGED <<unit, src, selects, findings, base_start, idx, reported>>

Next == ScanStart \/ LoopSkip \/ LoopReport \/ ScanReturn

Spec == Init /\ [][Next]_vars

(***************************************************************************)
(* The statements of a text, as the claims speak of them: a statement ends *)
(* at a "." and begins after the previous one; d is the offset of its ".". *)
(***************************************************************************)
Terminators(code) == {d \in 0..(Len(code) - 1) : Tok(code, d) = "."}

StmtLo(code, d) ==
    LET T == {e \in Terminators(code) : e < d}
    IN  IF T = {} THEN 0 ELSE Max(T) + 1

\* offset of the first lexeme of the statement that is not whitespace
StmtFirst(code, d) == SkipWs(code, StmtLo(code, d))

IsSelectStmt(code, d) == Is(code, StmtFirst(code, d), "SELECT")

FirstOf(code, lo, hi, words) ==
    LET S == {k \in lo..(hi - 1) : Upper(Tok(code, k)) \in words}
    IN  IF S = {} THEN -1 ELSE Min(S)

StmtFrom(code, d) == FirstOf(code, StmtFirst(code, d) + 1, d, {"FROM"})

StmtInto(code, d) ==
    IF StmtFrom(code, d) = -1 THEN -1
    ELSE FirstOf(code, StmtFrom(code, d) + 1, d, {"INTO"})

\* SELECT [SINGLE] <fields> FROM <from-clause> ... INTO [TABLE] <target> ... '.'
HasFromInto(code, d) == IsSelectStmt(code, d) /\ StmtInto(code, d) # -1

\* the FROM/JOIN chain: from after FROM up to the next clause keyword
StmtChain(code, d) ==
    LET f == StmtFrom(code, d)
        c == FirstOf(code, f + 1, d, {"WHERE", "INTO", "ORDER", "GROUP", "HAVING", "FOR"})
    IN  IF f = -1 THEN << >>
        ELSE Slice(code, f + 1, IF c = -1 THEN d ELSE c)

JoinWords == {"JOIN", "INNER", "LEFT", "RIGHT", "OUTER", "CROSS", "ON"}

\* offset of the last lexeme before i that is not whitespace, or -1
RECURSIVE PrevTok(_, _)
PrevTok(chain, i) ==
    IF i <= 0 THEN -1
    ELSE IF IsWs(Tok(chain, i - 1)) THEN PrevTok(chain, i - 1)
    ELSE i - 1

\* i lies in an ON condition: an ON precedes it with no JOIN in between
InOn(chain, i) ==
    \E o \in 0..(i - 1) :
        /\ Is(chain, o, "ON")
        /\ \A k \in (o + 1)..(i - 1) : ~Is(chain, k, "JOIN")

\* a table reference begins the chain, follows JOIN, or follows a comma of
\* the table list
IsRef(chain, i) ==
    /\ IsWord(Tok(chain, i))
    /\ Upper(Tok(chain, i)) \notin JoinWords
    /\ ~InOn(chain, i)
    /\ \/ PrevTok(chain, i) = -1
       \/ Is(chain, PrevTok(chain, i), "JOIN")
       \/ Is(chain, PrevTok(chain, i), ",")

\* the alias of the reference at i: AS <identifier>, a bare identifier, or
\* else the table name
RefAlias(chain, i) ==
    LET j == SkipWs(chain, i + 1)
        k == SkipWs(chain, j + 1)
    IN  IF j > i + 1 /\ Is(chain, j, "AS") /\ k > j + 1 /\ k < Len(chain)
           /\ IsWord(Tok(chain, k)) THEN Upper(Tok(chain, k))
        ELSE IF j > i + 1 /\ j < Len(chain) /\ IsWord(Tok(chain, j))
                /\ Upper(Tok(chain, j)) \notin JoinWords THEN Upper(Tok(chain, j))
        ELSE Upper(Tok(chain, i))

RECURSIVE RefsFrom(_, _)
RefsFrom(chain, i) ==
    IF i >= Len(chain) THEN << >>
    ELSE (IF IsRef(chain, i)
          THEN <<[table |-> Upper(Tok(chain, i)), alias |-> RefAlias(chain, i)]>>
          ELSE << >>) \o RefsFrom(chain, i + 1)

\* the table references of a FROM/JOIN chain, in order of appearance
ChainRefs(chain) == RefsFrom(chain, 0)

\* the VBRK/VBRP references of the statement
StmtVRefs(code, d) == SelectSeq(ChainRefs(StmtChain(code, d)), IsVbrkVbrp)

\* the statement text holds  <alias>~draft = <false-literal>
HasPredicate(code, d, alias) ==
    \E i \in StmtFirst(code, d)..(d - 1) :
        LET j1 == SkipWs(code, i + 1)
            j2 == SkipWs(code, j1 + 1)
            j3 == SkipWs(code, j2 + 1)
            j4 == SkipWs(code, j3 + 1)
        IN  /\ Upper(Tok(code, i)) = alias
            /\ j1 < d /\ Tok(code, j1) = "~"
            /\ j2 < d /\ Upper(Tok(code, j2)) = "DRAFT"
            /\ j3 < d /\ Tok(code, j3) = "="
            /\ j4 < d /\ Upper(Tok(code, j4)) \in {"SPACE", "' '", "''", "ABAP_FALSE"}

AllFiltered(code, d) ==
    \A k \in 1..Len(StmtVRefs(code, d)) : HasPredicate(code, d, StmtVRefs(code, d)[k].alias)

\* the findings of the returned unit, as a list
OutFindings == IF out_unit = None \/ Val(out_unit).findings = None THEN << >>
               ELSE Val(Val(out_unit).findings)

(***************************************************************************)
(* Claims                                                                  *)
(***************************************************************************)
Done == pc = "done"

\* the findings built for the statement that ends at d
FindingsFor(code, d) ==
    {k \in 1..Len(reported) : reported[k] = <<StmtFirst(code, d), d + 1>>}

\* C1: every statement SELECT ... FROM ... INTO ... "." on VBRK/VBRP in which
\* some VBRK/VBRP alias has no draft predicate gets exactly one finding
\* (MissingDraftFilter, error), whatever statements precede or follow it.
C1_ViolationDetection ==
    Done =>
        \A d \in Terminators(src) :
            (/\ HasFromInto(src, d)
             /\ StmtVRefs(src, d) # << >>
             /\ ~AllFiltered(src, d))
            => /\ Cardinality(FindingsFor(src, d)) = 1
               /\ \A k \in FindingsFor(src, d) :
                      /\ OutFindings[k].issues_type = "MissingDraftFilter"
                      /\ OutFindings[k].severity = "error"

\* C2: a statement SELECT ... FROM ... INTO ... in which every VBRK/VBRP
\* reference has its draft predicate produces no finding.
C2_AliasCompleteness ==
    Done =>
        \A d \in Terminators(src) :
            (HasFromInto(src, d) /\ AllFiltered(src, d))
            => \A k \in 1..Len(reported) : reported[k][1] # StmtFirst(src, d)

\* C3: the findings of the returned unit are None or a non-empty list; None
\* exactly when no located statement is a violation, else one finding per
\* violating located statement.
C3_AbsenceMarker ==
    Done =>
        LET f == Val(out_unit).findings
            V == {k \in 1..Len(selects) :
                     draft_filter_missing(selects[k].text, selects[k].tables)}
        IN  /\ f = None \/ Val(f) # << >>
            /\ f = None <=> V = {}
            /\ f # None => Len(Val(f)) = Cardinality(V)

\* C3 witness: the input carries findings of its own, one located statement
\* is compliant and one is a violation
C3_Witness ==
    /\ Done
    /\ unit.findings # None
    /\ Len(selects) = 2
    /\ Len(OutFindings) = 1

\* C4: a unit with no SELECT statement whose FROM/JOIN chain references VBRK
\* or VBRP gets findings = None.
C4_NoOpOnUnrelated ==
    Done =>
        ((\A d \in Terminators(src) : IsSelectStmt(src, d) => StmtVRefs(src, d) = << >>)
         => Val(out_unit).findings = None)

\* 1-based physical line of offset i: the newlines before it, plus 1
PhysLine(code, i) == Cardinality({j \in 0..(i - 1) : Tok(code, j) = "\n"}) + 1

\* C5: starting_line = start_line (0 when absent) + the 1-based physical line
\* of the SELECT keyword of the flagged statement.
C5_LineMapping ==
    Done =>
        \A k \in 1..Len(OutFindings) :
            /\ Is(src, reported[k][1], "SELECT")
            /\ OutFindings[k].starting_line =
                   (IF unit.start_line = None THEN 0 ELSE Val(unit.start_line))
                   + PhysLine(src, reported[k][1])

\* C5 witness: a flagged statement on the 5th line of a unit with start_line
\* 100 is reported at line 105
C5_Witness ==
    /\ Done
    /\ unit.start_line = Some(100)
    /\ \E k \in 1..Len(OutFindings) :
           /\ PhysLine(src, reported[k][1]) = 5
           /\ OutFindings[k].starting_line = 105

\* C6: the resolver returns the references of a FROM/JOIN chain in order, and
\* a reference without explicit alias gets its own table name as alias,
\* whatever follows it in the clause.
C6_DefaultAlias ==
    \A k \in 1..Len(selects) :
        \A d \in Terminators(src) :
            (selects[k].span = <<StmtFirst(src, d), d + 1>> /\ HasFromInto(src, d))
            => selects[k].tables = ChainRefs(StmtChain(src, d))

\* C7: a SELECT statement without an INTO target after its FROM clause is not
\* matched by the locator and yields no finding, whatever follows it.
C7_NoIntoNeverFlagged ==
    Done =>
        \A d \in Terminators(src) :
            (IsSelectStmt(src, d) /\ ~HasFromInto(src, d))
            => /\ \A k \in 1..Len(FindIter(src, 0)) :
                      FindIter(src, 0)[k].start # StmtFirst(src, d)
               /\ \A k \in 1..Len(reported) : reported[k][1] # StmtFirst(src, d)

\* C8: scan_unit leaves its input unchanged and returns a unit that differs
\* from it in the findings only; every finding carries the unit's names.
C8_Frame ==
    /\ [][unit' = unit]_vars
    /\ [](Done =>
            /\ [Val(out_unit) EXCEPT !.findings = unit.findings] = unit
            /\ \A k \in 1..Len(OutFindings) :
                   /\ OutFindings[k].prog_name = unit.pgm_name
                   /\ OutFindings[k].incl_name = unit.inc_name
                   /\ OutFindings[k].types = unit.type
                   /\ OutFindings[k].blockname = unit.name)

\* C8 witness: the input carries findings of its own and the returned unit
\* carries new ones
C8_Witness ==
    /\ Done
    /\ unit.findings # None
    /\ OutFindings # << >>
    /\ Val(out_unit).findings # unit.findings

\* C9: the spans the locator matches do not overlap, come in increasing
\* order, and each is one whole SELECT statement: from a SELECT keyword to
\* that statement's ".", with no other "." inside.
C9_SpanShape ==
    Done =>
        LET ms == FindIter(src, 0)
        IN  /\ \A k \in 1..Len(ms) :
                   /\ Is(src, ms[k].start, "SELECT")
                   /\ Tok(src, ms[k].end - 1) = "."
                   /\ \A j \in ms[k].start..(ms[k].end - 2) : Tok(src, j) # "."
            /\ \A k \in 1..(Len(ms) - 1) : ms[k].end <= ms[k + 1].start

\* the snippet of a span, as the claim words it: from just after the nearest
\* newline before the start to just before the nearest newline at or after
\* the end
SnippetLo(code, start) ==
    LET S == {j \in 0..(start - 1) : Tok(code, j) = "\n"}
    IN  IF S = {} THEN 0 ELSE Max(S) + 1

SnippetHi(code, end) ==
    LET S == {j \in end..(Len(code) - 1) : Tok(code, j) = "\n"}
    IN  IF S = {} THEN Len(code) ELSE Min(S)

SnippetNewlines(code, span) ==
    Cardinality({j \in SnippetLo(code, span[1])..(SnippetHi(code, span[2]) - 1) :
                    Tok(code, j) = "\n"})

\* C10: ending_line = starting_line + N + 1 with N the newlines of the
\* unescaped snippet; so ending_line > starting_line, and the reported
\* snippet holds no raw newline.
C10_EndingLine ==
    Done =>
        \A k \in 1..Len(OutFindings) :
            LET N == SnippetNewlines(src, reported[k])
                len == SnippetHi(src, reported[k][2]) - SnippetLo(src, reported[k][1])
            IN  /\ OutFindings[k].ending_line = OutFindings[k].starting_line + N + 1
                /\ OutFindings[k].ending_line > OutFindings[k].starting_line
                /\ \A j \in 1..Len(OutFindings[k].snippet) : OutFindings[k].snippet[j] # "\n"
                /\ Len(OutFindings[k].snippet) = len + N

\* C10 witness: a finding whose snippet runs over several lines, below
\* earlier lines of the unit
C10_Witness ==
    /\ Done
    /\ \E k \in 1..Len(OutFindings) :
           /\ SnippetNewlines(src, reported[k]) >= 2
           /\ SnippetLo(src, reported[k][1]) > 0
           /\ OutFindings[k].ending_line = OutFindings[k].starting_line
                                           + SnippetNewlines(src, reported[k]) + 1

====
